---- MODULE Spec2Model ----
(***************************************************************************)
(* A model of changelog (src/changelog.go, lines 1-388): one run of main   *)
(* over a local git history.  The run parses the JSON config, resolves the *)
(* two endpoints (getCommit), collects the commit chain (getCommitChain),  *)
(* and writes the preamble and the commit table.  A log.Panic anywhere is  *)
(* caught by main's deferred recover, which ends the run.                  *)
(*                                                                         *)
(* Strings are sequences of fragments; a string the program inspects byte  *)
(* by byte (an endpoint, a commit id) is a sequence of one-character       *)
(* fragments.  Bytes are the integers 0..255.                              *)
(***************************************************************************)
EXTENDS Integers, Sequences, FiniteSets, TLC

\* ------------------------------------------------------------------ bounds

\* Number of commits in the local history.
NumCommits == 4

\* Length in hex digits of a commit identifier (a 20-byte SHA-1).
GitOidHexSize == 40

GitOidRawSize == GitOidHexSize \div 2

Commits == 1..NumCommits

NoCommit == 0

\* ------------------------------------------------------------ encoding/hex

HexLower == <<"0","1","2","3","4","5","6","7","8","9","a","b","c","d","e","f">>

HexUpper == <<"0","1","2","3","4","5","6","7","8","9","A","B","C","D","E","F">>

Range(s) == {s[i] : i \in DOMAIN s}

HexChars == Range(HexLower) \cup Range(HexUpper)

IsHexChar(c) == c \in HexChars

\* The value of each hex digit; upper and lower case decode alike.
HexValue ==
    [c \in HexChars |->
        IF c \in Range(HexLower)
        THEN (CHOOSE i \in DOMAIN HexLower : HexLower[i] = c) - 1
        ELSE (CHOOSE i \in DOMAIN HexUpper : HexUpper[i] = c) - 1]

fromHexChar(c) == HexValue[c]

\* hex.DecodeString: fails on an odd length or on a character that is no hex
\* digit; otherwise two digits make one byte.
DecodeString(s) ==
    IF Len(s) % 2 = 0 /\ \A i \in DOMAIN s : IsHexChar(s[i])
    THEN [ok |-> TRUE,
          bytes |-> [i \in 1..(Len(s) \div 2) |->
                        16 * fromHexChar(s[2 * i - 1]) + fromHexChar(s[2 * i])]]
    ELSE [ok |-> FALSE, bytes |-> <<>>]

\* The ASCII code of a hex digit (the byte the digit occupies in the source
\* string).
AsciiOfHexChar(c) ==
    LET v == fromHexChar(c)
        lower == \E i \in DOMAIN HexLower : HexLower[i] = c
    IN  IF v < 10 THEN 48 + v
        ELSE IF lower THEN 97 + (v - 10) ELSE 65 + (v - 10)

\* Oid.String(): the identifier in lower-case hex, two digits per byte.
OidString(oid) ==
    [i \in 1..(2 * Len(oid)) |->
        IF i % 2 = 1
        THEN HexLower[(oid[(i + 1) \div 2] \div 16) + 1]
        ELSE HexLower[(oid[i \div 2] % 16) + 1]]

\* ---------------------------------------------------------------- the store

\* The identifiers used in the program's own examples.
SampleIdA ==
    <<"f","5","a","7","8","e","b","a","8","2","8","b","9","0","5","c","f","b","5","5",
      "9","a","4","2","7","e","1","a","f","c","c","e","b","5","d","3","3","7","c","a">>

SampleIdB ==
    <<"9","f","d","a","7","b","8","c","7","c","7","7","b","0","3","f","6","3","0","9",
      "7","3","d","4","3","7","3","d","9","4","6","a","d","f","a","a","7","6","f","7">>

\* The identifier of each commit: the two sample identifiers first, then
\* arbitrary distinct ones.
CommitIds ==
    [c \in Commits |->
        IF c = 1 THEN DecodeString(SampleIdA).bytes
        ELSE IF c = 2 THEN DecodeString(SampleIdB).bytes
        ELSE [i \in 1..GitOidRawSize |-> (c * 37 + i * 11) % 256]]

\* commit.Id()
Id(c) == CommitIds[c]

\* An identifier of no commit of the store.
AbsentId == [i \in 1..GitOidRawSize |-> (i * 7) % 256]

\* repo.LookupCommit: the commit with exactly this identifier, NoCommit when
\* there is none.
LookupCommit(oid) ==
    IF \E c \in Commits : Id(c) = oid
    THEN CHOOSE c \in Commits : Id(c) = oid
    ELSE NoCommit

\* commit.Author().Name
AuthorName(c) == IF c % 2 = 1 THEN "alice" ELSE "bob"

\* commit.Message(), as its lines: a subject, then a body line.
Message(c) == <<"subject", "body">>

\* The first line a bufio.Scanner reads; the empty string when there is none.
firstLineOfMessage(message) == IF Len(message) = 0 THEN "" ELSE message[1]

\* The commit DAGs over Commits: the parents of a commit are earlier commits,
\* none, one or several (a merge).
RECURSIVE DagsUpTo(_)
DagsUpTo(n) ==
    IF n = 0 THEN {<<>>}
    ELSE {Append(h, ps) : h \in DagsUpTo(n - 1), ps \in SUBSET (1..(n - 1))}

AllHistories == DagsUpTo(NumCommits)

\* A linear history 1 <- 2 <- ... <- NumCommits.
LinearHistory == [c \in Commits |-> IF c = 1 THEN {} ELSE {c - 1}]

\* A history with a merged side branch: 2 and 3 both fork from 1, and every
\* later commit merges the two commits before it.
MergeHistory ==
    [c \in Commits |-> IF c = 1 THEN {} ELSE IF c <= 3 THEN {1} ELSE {c - 1, c - 2}]

FewHistories == {LinearHistory, MergeHistory}

\* The commits reachable from c by parent edges, c excluded.
RECURSIVE Ancestors(_, _)
Ancestors(p, c) == UNION {{q} \cup Ancestors(p, q) : q \in p[c]}

\* Reference names.
HeadName == <<"H","E","A","D">>

MasterName == <<"r","e","f","s","/","h","e","a","d","s","/","m","a","s","t","e","r">>

FeedName == <<"F","E","E","D">>

AbcName == <<"A","B","C">>

MissingName == <<"r","e","f","s","/","h","e","a","d","s","/","g","o","n","e">>

\* The reference namespace: HEAD points at the master branch, which points at
\* the newest commit; FEED and ABC are one-level references whose names
\* happen to consist of hex digits.
References ==
    {[name |-> HeadName, type |-> "symbolic", target |-> <<>>, symbolicTarget |-> MasterName],
     [name |-> MasterName, type |-> "oid", target |-> Id(NumCommits), symbolicTarget |-> <<>>],
     [name |-> FeedName, type |-> "oid", target |-> Id(1), symbolicTarget |-> <<>>],
     [name |-> AbcName, type |-> "oid", target |-> Id(2), symbolicTarget |-> <<>>]}

HasReference(name) == \E r \in References : r.name = name

\* repo.References.Lookup of a name that exists.
ReferenceLookup(name) == CHOOSE r \in References : r.name = name

\* targetRef.Peel(git.ObjectCommit) followed by AsCommit: the reference is
\* resolved through any symbolic targets to an identifier, and that to a
\* commit; NoCommit when either fails.
RECURSIVE Peel(_, _)
Peel(ref, fuel) ==
    IF ref.type = "oid" THEN LookupCommit(ref.target)
    ELSE IF fuel = 0 \/ ~HasReference(ref.symbolicTarget) THEN NoCommit
    ELSE Peel(ReferenceLookup(ref.symbolicTarget), fuel - 1)

\* git.NewOidFromBytes: copy(oid[0:20], b[0:20]).  With 20 bytes or more the
\* identifier is the first 20.  With fewer, b[0:20] reslices past the length
\* of b: a runtime panic when the capacity of b is below 20, and otherwise
\* whatever the backing array holds there, which is zeros when DecodeString
\* decoded into a fresh buffer and the undecoded tail of the source string
\* when it decoded in place.  The capacity is the runtime's choice.
NewOidFromBytes(s, b) ==
    IF Len(b) >= GitOidRawSize
    THEN {[panic |-> FALSE, oid |-> SubSeq(b, 1, GitOidRawSize)]}
    ELSE {[panic |-> TRUE, oid |-> <<>>],
          [panic |-> FALSE,
           oid |-> [i \in 1..GitOidRawSize |-> IF i <= Len(b) THEN b[i] ELSE 0]],
          [panic |-> FALSE,
           oid |-> [i \in 1..GitOidRawSize |->
                      IF i <= Len(b) THEN b[i]
                      ELSE IF i <= Len(s) THEN AsciiOfHexChar(s[i]) ELSE 0]]}

Resolved(c, via) == [commit |-> c, via |-> via, panic |-> "none"]

Panicked(via, what) == [commit |-> NoCommit, via |-> via, panic |-> what]

\* getCommit: the outcomes of resolving one endpoint string.  via records
\* which namespace was consulted: "oid" for repo.LookupCommit on the parsed
\* identifier, "reference" for repo.References.Lookup on the name.
getCommit(refOrHash) ==
    LET decoded == DecodeString(refOrHash)
    IN  IF decoded.ok
        THEN {IF o.panic THEN Panicked("oid", "NewOidFromBytes: slice bounds out of range")
              ELSE IF LookupCommit(o.oid) = NoCommit
                   THEN Panicked("oid", "getCommit: failed to get commit")
                   ELSE Resolved(LookupCommit(o.oid), "oid")
              : o \in NewOidFromBytes(refOrHash, decoded.bytes)}
        ELSE IF ~HasReference(refOrHash)
        THEN {Panicked("reference", "getCommit: failed to lookup reference")}
        ELSE LET ref == ReferenceLookup(refOrHash)
             IN  IF ref.type = "oid"
                 THEN IF LookupCommit(ref.target) = NoCommit
                      THEN {Panicked("reference", "getCommit: target is no commit")}
                      ELSE {Resolved(LookupCommit(ref.target), "reference")}
                 ELSE IF ~HasReference(ref.symbolicTarget)
                 THEN {Panicked("reference", "getCommit: failed to lookup ref")}
                 ELSE IF Peel(ReferenceLookup(ref.symbolicTarget), Cardinality(References)) = NoCommit
                 THEN {Panicked("reference", "getCommit: failed to get object")}
                 ELSE {Resolved(Peel(ReferenceLookup(ref.symbolicTarget), Cardinality(References)),
                                "reference")}

\* ------------------------------------------------------------ getCommitChain

\* DescendantOf with its two arguments taken in the other order.
DescendantOfSwapped(p, commit, ancestor) ==
    /\ commit # ancestor
    /\ LookupCommit(commit) \in Ancestors(p, LookupCommit(ancestor))

\* repo.DescendantOf(commit, ancestor), libgit2's git_graph_descendant_of:
\* whether ancestor is reachable from commit by parent edges.  A commit is
\* not a descendant of itself: the call answers false for equal identifiers.
DescendantOf(p, commit, ancestor) ==
    /\ commit # ancestor
    /\ LookupCommit(ancestor) \in Ancestors(p, LookupCommit(commit))

\* A walk that follows only the first (lowest) parent of each commit.
RECURSIVE WalkSetFirstParent(_, _)
WalkSetFirstParent(p, tip) ==
    IF p[tip] = {} THEN {tip}
    ELSE {tip} \cup WalkSetFirstParent(p, CHOOSE q \in p[tip] : \A r \in p[tip] : q <= r)

\* The commits a walk pushed at tip visits: tip and its ancestors.
WalkSet(p, tip) == {tip} \cup Ancestors(p, tip)

\* A walker without the topological sorting: a commit may be handed out as
\* soon as one of its children has been.
ReadyUnsorted(p, walk, emitted) ==
    {c \in walk \ Range(emitted) :
        \/ \A d \in walk : c \notin p[d]
        \/ \E d \in Range(emitted) : c \in p[d]}

\* The commits the walker may hand out next: those of the walk not handed out
\* yet all of whose children in the walk have been (git.SortTopological: no
\* parent before all of its children).
Ready(p, walk, emitted) ==
    {c \in walk \ Range(emitted) :
        \A d \in walk \ Range(emitted) : c \notin p[d]}

\* Every order in which revWalker.Next can hand out the commits of the walk.
\* The order among commits that are not related is libgit2's choice.
RECURSIVE TopologicalOrders(_, _, _)
TopologicalOrders(p, walk, emitted) ==
    IF Range(emitted) = walk THEN {emitted}
    ELSE UNION {TopologicalOrders(p, walk, Append(emitted, c)) :
                    c \in Ready(p, walk, emitted)}

\* The sequences of identifiers revWalker.Next yields after Push(tip).
RevWalk(p, tip) ==
    {[i \in DOMAIN order |-> Id(order[i])] :
        order \in TopologicalOrders(p, WalkSet(p, LookupCommit(tip)), <<>>)}

\* The loop with the test for the start's identifier after the append.
RECURSIVE CollectThrough(_, _, _)
CollectThrough(walked, i, startId) ==
    IF i > Len(walked) THEN <<>>
    ELSE IF walked[i] = startId THEN <<walked[i]>>
    ELSE <<walked[i]>> \o CollectThrough(walked, i + 1, startId)

\* The loop of getCommitChain: append identifiers until the start's is met or
\* the walker is exhausted.
RECURSIVE CollectUntil(_, _, _)
CollectUntil(walked, i, startId) ==
    IF i > Len(walked) \/ walked[i] = startId THEN <<>>
    ELSE <<walked[i]>> \o CollectUntil(walked, i + 1, startId)

\* getCommitChain(repo, end, start): the outcomes, a panic or a chain.
getCommitChain(p, end, start) ==
    IF ~DescendantOf(p, Id(end), Id(start))
    THEN {[panic |-> "ERROR: end-commit not reachable from start commit", chain |-> <<>>]}
    ELSE {[panic |-> "none", chain |-> CollectUntil(walked, 1, Id(start))] :
            walked \in RevWalk(p, Id(end))}

\* ---------------------------------------------------------- text/template

Text(s) == [kind |-> "text", val |-> s]

Field(f) == [kind |-> "field", val |-> f]

RECURSIVE Flatten(_)
Flatten(ss) == IF Len(ss) = 0 THEN <<>> ELSE Head(ss) \o Flatten(Tail(ss))

\* The index of the first action of the template that names a field the data
\* does not have; 0 when there is none.
FirstUndefined(tmpl, data) ==
    LET bad == {i \in DOMAIN tmpl : tmpl[i].kind = "field" /\ tmpl[i].val \notin DOMAIN data}
    IN  IF bad = {} THEN 0 ELSE CHOOSE i \in bad : \A j \in bad : i <= j

\* Template.Execute on a struct: the parts are written in order; a field the
\* struct does not have is an error, after the parts before it were written.
Execute(tmpl, data) ==
    LET k == FirstUndefined(tmpl, data)
        n == IF k = 0 THEN Len(tmpl) ELSE k - 1
    IN  [ok |-> k = 0,
         out |-> Flatten([i \in 1..n |->
                    IF tmpl[i].kind = "text" THEN <<tmpl[i].val>> ELSE data[tmpl[i].val]])]

tmplPreamble ==
    <<Text("\n["), Field("ProjectName"), Text("]("), Field("ProjectRepoURL"),
      Text(") Deployment<br>\n"), Field("DateStringIST"), Text(" IST, "),
      Field("DateStringWIB"), Text(" WIB <br>\n[Diff: "), Field("StartCommitID"),
      Text("..."), Field("EndCommitID"), Text("]("), Field("GitlabDiffURL"),
      Text(") <br>\nAuthors: "), Field("AuthorListString"), Text("\n")>>

commitInfoTableHeader == <<"\n| Commit | Author | Message |\n| ------ | ------ | --------|\n">>

tmplCommitInfoLine ==
    <<Text("|["), Field("CommitID"), Text("]("), Field("CommitURL"), Text(")|"),
      Field("CommitAuthor"), Text("|"), Field("CommitMessage"), Text("|")>>

\* ------------------------------------------------------------------ state

VARIABLES
    parents,      \* the repository's history: the parents of each commit
    opts,         \* the command line: the -start and -end endpoint strings
    configFile,   \* the contents of the JSON config file
    config,       \* the global config struct
    pc,           \* the call main makes next
    endCommit,    \* main's endCommit
    startCommit,  \* main's startCommit
    via,          \* the namespace getCommit consulted for each endpoint
    commits,      \* main's commits, the chain
    out,          \* the writes made to the output, in order
    panic         \* the panic main's deferred recover caught, "none" if none

vars == <<parents, opts, configFile, config, pc, endCommit, startCommit, via,
          commits, out, panic>>

\* ----------------------------------------------------------------- config

DiffURLTemplates ==
    {<<Text("https://git.example/compare/"), Field("StartCommitID"), Text("..."),
       Field("EndCommitID")>>,
     <<Text("https://git.example/compare/"), Field("StartCommitID"), Text("..."),
       Field("EndCommit")>>}

CommitURLTemplates ==
    {<<Text("https://git.example/commit/"), Field("CommitID")>>,
     <<Text("https://git.example/commit/"), Field("CommitHash")>>}

HashDigits == {-3, -1, 0, 1, 8, GitOidHexSize, GitOidHexSize + 1}

ConfigFiles ==
    [ProjectName : {<<"changelog">>},
     ProjectRepoURL : {<<"https://git.example">>},
     DiffURLTemplate : DiffURLTemplates,
     CommitURLTemplate : CommitURLTemplates,
     CommitHashDigits : HashDigits]

\* A config file whose templates use only defined placeholders.
PlainConfigFiles ==
    {f \in ConfigFiles :
        /\ f.CommitHashDigits = 8
        /\ FirstUndefined(f.DiffURLTemplate,
                          [StartCommitID |-> <<>>, EndCommitID |-> <<>>]) = 0
        /\ FirstUndefined(f.CommitURLTemplate, [CommitID |-> <<>>]) = 0}

\* The zero value of the config struct.
ZeroConfig ==
    [ProjectName |-> <<>>, ProjectRepoURL |-> <<>>, DiffURLTemplate |-> <<>>,
     CommitURLTemplate |-> <<>>, CommitHashDigits |-> 0]

\* parseJSONConfig with the test "< 0" for "<= 0".
parseJSONConfigNegativeOnly(file) ==
    IF file.CommitHashDigits < 0
    THEN [file EXCEPT !.CommitHashDigits = -1]
    ELSE file

\* parseJSONConfig: the file's fields, with a width of zero or less replaced
\* by the special value -1.
parseJSONConfig(file) ==
    IF file.CommitHashDigits <= 0
    THEN [file EXCEPT !.CommitHashDigits = -1]
    ELSE file

\* ------------------------------------------------------------- the report

\* truncateBytes(b, n): b itself for the special -1; otherwise n is clamped
\* to len(b) and b[0 : n-1] is returned, which panics when n-1 is negative.
truncateBytes(b, n) ==
    IF n = -1 THEN [panic |-> FALSE, bytes |-> b]
    ELSE LET m == IF Len(b) < n THEN Len(b) ELSE n
         IN  IF m - 1 < 0 THEN [panic |-> TRUE, bytes |-> <<>>]
             ELSE [panic |-> FALSE, bytes |-> SubSeq(b, 1, m - 1)]

\* makeDiffURL with each identifier put in the other field.
makeDiffURLSwapped(endCommitID, startCommitID) ==
    LET diffURLInfo == [StartCommitID |-> OidString(endCommitID),
                        EndCommitID |-> OidString(startCommitID),
                        GitlabDiffURL |-> <<>>]
        url == Execute(config.DiffURLTemplate, diffURLInfo)
    IN  [ok |-> url.ok, info |-> [diffURLInfo EXCEPT !.GitlabDiffURL = url.out]]

\* makeDiffURL(w, endCommitID, startCommitID)
makeDiffURL(endCommitID, startCommitID) ==
    LET diffURLInfo == [StartCommitID |-> OidString(startCommitID),
                        EndCommitID |-> OidString(endCommitID),
                        GitlabDiffURL |-> <<>>]
        url == Execute(config.DiffURLTemplate, diffURLInfo)
    IN  [ok |-> url.ok, info |-> [diffURLInfo EXCEPT !.GitlabDiffURL = url.out]]

RECURSIVE IterationOrders(_)
IterationOrders(S) ==
    IF S = {} THEN {<<>>}
    ELSE UNION {{<<x>> \o q : q \in IterationOrders(S \ {x})} : x \in S}

\* getAuthorListString: each distinct author name followed by a comma, in the
\* order the map iteration yields them, which Go leaves unspecified.
getAuthorListString(commitChain) ==
    LET authors == {AuthorName(LookupCommit(commitChain[i])) : i \in DOMAIN commitChain}
    IN  {Flatten([i \in DOMAIN q |-> <<q[i], ",">>]) : q \in IterationOrders(authors)}

\* The two formatted timestamps; the clock is not part of the model.
DateStringIST == <<"02-November-2026 15-30-00">>

DateStringWIB == <<"02-November-2026 17-00-00">>

\* writePreamble with the diff URL template executed into the output itself
\* and not into a buffer of its own.
writePreambleUnbuffered(w, startCommitID, endCommitID, commitChain) ==
    LET diff == makeDiffURL(startCommitID, endCommitID)
    IN  IF ~diff.ok
        THEN {[out |-> w \o <<diff.info.GitlabDiffURL>>,
               panic |-> "template: diff_url: can't evaluate field"]}
        ELSE {[out |-> w \o <<diff.info.GitlabDiffURL, <<"<br>">>>>, panic |-> "none"]}

\* writePreamble(w, repo, startCommitID, endCommitID, commitChain): the
\* outcomes, each the output after the call and the panic raised, if any.
writePreamble(w, startCommitID, endCommitID, commitChain) ==
    LET diff == makeDiffURL(startCommitID, endCommitID)
    IN  IF ~diff.ok
        THEN {[out |-> w, panic |-> "template: diff_url: can't evaluate field"]}
        ELSE {LET preambleInfo ==
                      [ProjectName |-> config.ProjectName,
                       ProjectRepoURL |-> config.ProjectRepoURL,
                       DateStringIST |-> DateStringIST,
                       DateStringWIB |-> DateStringWIB,
                       AuthorListString |-> authorList,
                       StartCommitID |-> diff.info.StartCommitID,
                       EndCommitID |-> diff.info.EndCommitID,
                       GitlabDiffURL |-> diff.info.GitlabDiffURL]
                  text == Execute(tmplPreamble, preambleInfo)
              IN  IF text.ok
                  THEN [out |-> w \o <<text.out, <<"<br>">>>>, panic |-> "none"]
                  ELSE [out |-> w \o <<text.out>>,
                        panic |-> "template: preamble: can't evaluate field"]
              : authorList \in getAuthorListString(commitChain)}

\* The loop of writeCommitChain from entry i on.  The error of executing the
\* commit URL template is not looked at: whatever it wrote before failing is
\* the row's URL.
RECURSIVE writeRows(_, _, _)
writeRows(commitChain, i, w) ==
    IF i > Len(commitChain) THEN [out |-> w, panic |-> "none"]
    ELSE
    LET commit == LookupCommit(commitChain[i])
        id == truncateBytes(OidString(Id(commit)), config.CommitHashDigits)
        commitInfo == [CommitURL |-> <<>>,
                       CommitID |-> id.bytes,
                       CommitAuthor |-> <<AuthorName(commit)>>,
                       CommitMessage |-> <<firstLineOfMessage(Message(commit))>>]
        url == Execute(config.CommitURLTemplate, commitInfo)
        line == Execute(tmplCommitInfoLine, [commitInfo EXCEPT !.CommitURL = url.out])
    IN  IF commit = NoCommit
        THEN [out |-> w, panic |-> "LookupCommit: object not found"]
        ELSE IF id.panic
        THEN [out |-> w, panic |-> "truncateBytes: slice bounds out of range"]
        ELSE writeRows(commitChain, i + 1, w \o <<line.out, <<"\n">>>>)

\* writeCommitChain(repo, commitChain, w)
writeCommitChain(commitChain, w) ==
    writeRows(commitChain, 1, w \o <<commitInfoTableHeader>>)

\* ------------------------------------------------------------------- main

InitWith(histories, endpoints, files) ==
    /\ parents \in histories
    /\ opts \in [startCommitID : endpoints, endCommitID : endpoints]
    /\ configFile \in files
    /\ config = ZeroConfig
    /\ pc = "parseJSONConfig"
    /\ endCommit = NoCommit
    /\ startCommit = NoCommit
    /\ via = [end |-> "none", start |-> "none"]
    /\ commits = <<>>
    /\ out = <<>>
    /\ panic = "none"

CommitIdStrings == {OidString(Id(c)) : c \in Commits}

\* The endpoint strings tried: every commit's identifier, the identifier of
\* no commit, an identifier in upper case, an abbreviated identifier, an
\* identifier with two more digits, and reference names, present and absent.
Endpoints ==
    CommitIdStrings \cup
    {OidString(AbsentId),
     [i \in 1..GitOidHexSize |-> HexUpper[fromHexChar(SampleIdA[i]) + 1]],
     SubSeq(SampleIdA, 1, 8),
     SampleIdA \o <<"0", "0">>,
     HeadName, MasterName, FeedName, AbcName, MissingName}

Init == InitWith(FewHistories, Endpoints, ConfigFiles)

InitHistories == InitWith(AllHistories, CommitIdStrings, PlainConfigFiles)

\* A panic unwinds to main's deferred recover, which logs it; main returns.
Recover(what) ==
    /\ pc' = "done"
    /\ panic' = what

\* main, line 348
ParseJSONConfig ==
    /\ pc = "parseJSONConfig"
    /\ config' = parseJSONConfig(configFile)
    /\ pc' = "getCommitEnd"
    /\ UNCHANGED <<parents, opts, configFile, endCommit, startCommit, via, commits,
                   out, panic>>

\* main, line 372
GetCommitEnd ==
    /\ pc = "getCommitEnd"
    /\ \E r \in getCommit(opts.endCommitID) :
        /\ via' = [via EXCEPT !.end = r.via]
        /\ endCommit' = r.commit
        /\ IF r.panic # "none" THEN Recover(r.panic)
           ELSE pc' = "getCommitStart" /\ UNCHANGED panic
    /\ UNCHANGED <<parents, opts, configFile, config, startCommit, commits, out>>

\* main, line 373
GetCommitStart ==
    /\ pc = "getCommitStart"
    /\ \E r \in getCommit(opts.startCommitID) :
        /\ via' = [via EXCEPT !.start = r.via]
        /\ startCommit' = r.commit
        /\ IF r.panic # "none" THEN Recover(r.panic)
           ELSE pc' = "getCommitChain" /\ UNCHANGED panic
    /\ UNCHANGED <<parents, opts, configFile, config, endCommit, commits, out>>

\* main, line 377
GetCommitChain ==
    /\ pc = "getCommitChain"
    /\ \E r \in getCommitChain(parents, endCommit, startCommit) :
        /\ commits' = r.chain
        /\ IF r.panic # "none" THEN Recover(r.panic)
           ELSE pc' = "writePreamble" /\ UNCHANGED panic
    /\ UNCHANGED <<parents, opts, configFile, config, endCommit, startCommit, via, out>>

\* main, line 379
WritePreamble ==
    /\ pc = "writePreamble"
    /\ \E r \in writePreamble(out, Id(endCommit), Id(startCommit), commits) :
        /\ out' = r.out
        /\ IF r.panic # "none" THEN Recover(r.panic)
           ELSE pc' = "writeCommitChain" /\ UNCHANGED panic
    /\ UNCHANGED <<parents, opts, configFile, config, endCommit, startCommit, via,
                   commits>>

\* main, lines 380-388
WriteCommitChain ==
    /\ pc = "writeCommitChain"
    /\ LET r == writeCommitChain(commits, out)
       IN  /\ out' = r.out
           /\ Recover(r.panic)
    /\ UNCHANGED <<parents, opts, configFile, config, endCommit, startCommit, via,
                   commits>>

Next ==
    \/ ParseJSONConfig
    \/ GetCommitEnd
    \/ GetCommitStart
    \/ GetCommitChain
    \/ WritePreamble
    \/ WriteCommitChain

Spec == Init /\ [][Next]_vars

SpecHistories == InitHistories /\ [][Next]_vars

\* ----------------------------------------------------------------- claims

\* getCommitChain has returned or panicked, and nothing has run since.
AfterGetCommitChain ==
    \/ pc = "writePreamble"
    \/ pc = "done" /\ panic = "ERROR: end-commit not reachable from start commit"

\* Both endpoints resolved and getCommitChain was called.
ChainRequested ==
    /\ endCommit # NoCommit
    /\ startCommit # NoCommit
    /\ pc \in {"writePreamble", "writeCommitChain", "done"}

\* start is reachable from end by one or more parent edges.
StartIsStrictAncestor == startCommit \in Ancestors(parents, endCommit)

ChainCommits == {LookupCommit(commits[i]) : i \in DOMAIN commits}

\* The commits reachable from end by parent edges, end included.
ReachableFromEnd == {endCommit} \cup Ancestors(parents, endCommit)

\* C1: when start is an ancestor of end and the two differ, getCommitChain
\* returns a chain that does not contain start's identifier and contains
\* end's.
C1_ChainExcludesStartIncludesEnd ==
    (AfterGetCommitChain /\ ChainRequested /\ StartIsStrictAncestor)
        => /\ panic = "none"
           /\ Id(startCommit) \notin Range(commits)
           /\ Id(endCommit) \in Range(commits)

C1_Witness ==
    /\ pc = "writePreamble"
    /\ StartIsStrictAncestor
    /\ Cardinality(parents[endCommit]) = 2
    /\ Len(commits) >= 2

\* C2: every identifier in the chain is reachable from end and is a strict
\* descendant of start.
C2_ChainWithinRange ==
    (pc = "writePreamble" /\ StartIsStrictAncestor)
        => \A c \in ChainCommits :
              /\ c \in ReachableFromEnd
              /\ startCommit \in Ancestors(parents, c)

\* C3: with start and end the same commit, getCommitChain passes the
\* reachability check and returns the empty chain.
C3_SameEndpointsEmptyChain ==
    (ChainRequested /\ startCommit = endCommit)
        => panic = "none" /\ commits = <<>>

\* C4: when start is not an ancestor of end, getCommitChain panics with the
\* unreachable error, no chain is produced and nothing is written.
C4_UnreachableFailsBeforeOutput ==
    (ChainRequested /\ startCommit \notin ReachableFromEnd)
        => /\ pc = "done"
           /\ panic = "ERROR: end-commit not reachable from start commit"
           /\ commits = <<>>
           /\ out = <<>>

C4_Witness ==
    /\ pc = "done"
    /\ ChainRequested
    /\ startCommit \notin ReachableFromEnd
    /\ endCommit \in Ancestors(parents, startCommit)

\* C5: when start is an ancestor of end, the chain contains every commit
\* that is reachable from end and a strict descendant of start; on the
\* linear history it is end, then each parent in turn, down to the child
\* of start.
C5_ChainCoversRange ==
    (pc = "writePreamble" /\ StartIsStrictAncestor)
        => /\ \A c \in ReachableFromEnd :
                startCommit \in Ancestors(parents, c) => Id(c) \in Range(commits)
           /\ parents = LinearHistory
                => commits = [i \in 1..(endCommit - startCommit) |-> Id(endCommit - i + 1)]

C5_Witness ==
    /\ pc = "writePreamble"
    /\ parents = LinearHistory
    /\ endCommit - startCommit = 3
    /\ commits = <<Id(endCommit), Id(endCommit - 1), Id(endCommit - 2)>>

\* C6: the chain has no identifier twice, and every commit in it comes
\* before each of its parents that is in it too.
C6_ChainDescendantsFirst ==
    (pc = "writePreamble" /\ StartIsStrictAncestor)
        => \A i, j \in DOMAIN commits :
              /\ (i # j => commits[i] # commits[j])
              /\ (LookupCommit(commits[j]) \in parents[LookupCommit(commits[i])] => i < j)

C6_Witness ==
    /\ pc = "writePreamble"
    /\ StartIsStrictAncestor
    /\ \E c \in ChainCommits :
          Cardinality(parents[c]) = 2 /\ parents[c] \subseteq ChainCommits

\* The run wrote the whole report.
ReportWritten == pc = "done" /\ panic = "none"

\* The text of the table row of the i-th chain entry: after the preamble,
\* the "<br>" and the table header, each entry is a row and a newline.
RowOf(i) == out[2 * i + 2]

\* The commit id a row shows: what stands between "|[" and the first "](".
ShownCommitId(row) ==
    LET close == CHOOSE j \in DOMAIN row :
                    row[j] = "](" /\ \A k \in 1..(j - 1) : row[k] # "]("
    IN  SubSeq(row, 2, close - 1)

\* C7: with a width k, 0 < k <= 40, each table row shows exactly the first k
\* characters of the commit's identifier.
C7_RowShowsFirstKCharacters ==
    (ReportWritten /\ config.CommitHashDigits \in 1..GitOidHexSize)
        => \A i \in DOMAIN commits :
              ShownCommitId(RowOf(i))
                  = SubSeq(OidString(commits[i]), 1, config.CommitHashDigits)

\* C8: a configured width of zero or less is normalised to -1 by
\* parseJSONConfig, truncateBytes is never called with another width that is
\* zero or less, and every table row then shows the full identifier.
C8_NonPositiveWidthKeepsIdentifier ==
    /\ (pc # "parseJSONConfig" /\ configFile.CommitHashDigits <= 0)
          => config.CommitHashDigits = -1
    /\ pc = "writeCommitChain"
          => (config.CommitHashDigits = -1 \/ config.CommitHashDigits > 0)
    /\ panic # "truncateBytes: slice bounds out of range"
    /\ (ReportWritten /\ configFile.CommitHashDigits <= 0)
          => \A i \in DOMAIN commits :
                ShownCommitId(RowOf(i)) = OidString(commits[i])

C8_Witness ==
    /\ ReportWritten
    /\ configFile.CommitHashDigits = 0
    /\ Len(commits) >= 2

\* The configured diff URL template names a placeholder that DiffURLInfo
\* does not have.
DiffTemplateUndefined ==
    FirstUndefined(configFile.DiffURLTemplate,
        [StartCommitID |-> <<>>, EndCommitID |-> <<>>, GitlabDiffURL |-> <<>>]) # 0

\* C9: when the diff URL template names an undefined placeholder, the run
\* panics in makeDiffURL, and nothing is ever written to the output.
C9_BadDiffTemplateWritesNothing ==
    DiffTemplateUndefined
        => /\ out = <<>>
           /\ pc # "writeCommitChain"
           /\ (ChainRequested /\ StartIsStrictAncestor /\ pc = "done")
                 => panic = "template: diff_url: can't evaluate field"

C9_Witness ==
    /\ DiffTemplateUndefined
    /\ pc = "done"
    /\ panic = "template: diff_url: can't evaluate field"
    /\ Len(commits) >= 1

\* A string of exactly 40 hex digits.
IsFixedLengthHex(s) == Len(s) = GitOidHexSize /\ \A i \in DOMAIN s : IsHexChar(s[i])

\* C10: an end endpoint of 40 hex digits is looked up as a commit, found
\* when the store has it and failing otherwise; every other string is
\* looked up as a reference name, failing only when the reference is absent.
C10_EndpointNamespace ==
    via.end # "none"
        => IF IsFixedLengthHex(opts.endCommitID)
           THEN /\ via.end = "oid"
                /\ IF LookupCommit(DecodeString(opts.endCommitID).bytes) # NoCommit
                   THEN endCommit = LookupCommit(DecodeString(opts.endCommitID).bytes)
                   ELSE panic = "getCommit: failed to get commit"
           ELSE /\ via.end = "reference"
                /\ (endCommit = NoCommit <=> ~HasReference(opts.endCommitID))

\* s occurs in text as a run of consecutive fragments.
OccursIn(s, text) ==
    \E k \in 1..(Len(text) - Len(s) + 1) : SubSeq(text, k, k + Len(s) - 1) = s

\* The comparison line of the preamble as it reads with the resolved start
\* commit's identifier for StartCommitID and the resolved end commit's for
\* EndCommitID, in the label and in the configured diff URL template.
ExpectedDiffLine ==
    LET startId == OidString(Id(startCommit))
        endId == OidString(Id(endCommit))
        link == Execute(configFile.DiffURLTemplate,
                        [StartCommitID |-> startId, EndCommitID |-> endId,
                         GitlabDiffURL |-> <<>>])
    IN  <<" WIB <br>\n[Diff: ">> \o startId \o <<"...">> \o endId \o <<"](">>
            \o link.out \o <<") <br>\nAuthors: ">>

\* C11: in every successful run the preamble's comparison link carries the
\* resolved start commit's identifier for StartCommitID and the resolved end
\* commit's for EndCommitID, never the two exchanged.
C11_DiffLinkStartThenEnd ==
    ReportWritten => OccursIn(ExpectedDiffLine, out[1])

C11_Witness ==
    /\ ReportWritten
    /\ startCommit # endCommit
    /\ Len(commits) >= 2
    /\ OccursIn(ExpectedDiffLine, out[1])

\* The configured commit URL template names a placeholder that CommitInfo
\* does not have.
CommitTemplateUndefined ==
    FirstUndefined(configFile.CommitURLTemplate,
        [CommitURL |-> <<>>, CommitID |-> <<>>, CommitAuthor |-> <<>>,
         CommitMessage |-> <<>>]) # 0

\* The table rows written so far: what follows the preamble, the "<br>" and
\* the table header.
RowsWritten == IF Len(out) <= 3 THEN 0 ELSE (Len(out) - 3) \div 2

\* C12: when executing the commit URL template fails for a chain entry, the
\* run aborts with a render error and no table row is written for the entry.
C12_BadCommitTemplateIsFatal ==
    CommitTemplateUndefined
        => /\ RowsWritten = 0
           /\ (pc = "done" /\ Len(out) >= 3 /\ Len(commits) >= 1) => panic # "none"

====
